---------------------------- MODULE Spec2Model ----------------------------
(***************************************************************************)
(* One-way folder backup (src/backup.py): calc_md5, log, sync and the      *)
(* scheduler loop of main, over a small filesystem with a source tree and  *)
(* a destination tree.                                                     *)
(*                                                                         *)
(* A tree maps every relative path of the universe Paths to a node:        *)
(* Absent, Dir or File(content).  The node at <<>> is the root itself.     *)
(* The two roots are distinct, non-nested directories of the host          *)
(* filesystem, so an operation on one side cannot reach the other side.    *)
(***************************************************************************)
EXTENDS Integers, Sequences, FiniteSets, TLC

\* ------------------------------------------------------------------ bounds
\* most entries (files and directories below the root) of an initial tree
MaxEntries == 2
\* most passes the scheduler loop of main starts
MaxPasses == 2
\* most entries another process removes while sync runs
MaxRaces == 1

\* ------------------------------------------------------- filesystem universe
Names == {"a", "b"}
Contents == {"hello", "world"}

Paths ==
    {<<>>} \cup {<<x>> : x \in Names} \cup {<<x, y>> : x \in Names, y \in Names}

Absent == <<"absent">>
Dir == <<"dir">>
File(c) == <<"file", c>>
Nodes == {Absent, Dir} \cup {File(c) : c \in Contents}

IsFile(n) == n \notin {Absent, Dir}
Data(n) == n[2]

Parent(p) == SubSeq(p, 1, Len(p) - 1)
IsPrefix(p, q) == Len(p) <= Len(q) /\ SubSeq(q, 1, Len(p)) = p
\* os.path.join(root, name)
Join(p, n) == Append(p, n)

\* a tree the host filesystem can hold: an entry's parent is a directory
WellFormed(t) ==
    \A p \in Paths : (p # <<>> /\ t[p] # Absent) => t[Parent(p)] = Dir

Entries(t) == {p \in Paths : p # <<>> /\ t[p] # Absent}

Trees ==
    {t \in [Paths -> Nodes] : WellFormed(t) /\ Cardinality(Entries(t)) <= MaxEntries}

FilesOf(t) == {p \in Paths : IsFile(t[p])}

\* the orders in which the host can enumerate names: not specified, but the
\* same each time an unchanged directory is listed
Orders ==
    {s \in [1..Cardinality(Names) -> Names] :
        \A i, j \in 1..Cardinality(Names) : s[i] = s[j] => i = j}

\* the names of S in the order ord
Listing(S, ord) == SelectSeq(ord, LAMBDA n : n \in S)

\* ------------------------------------------------------- host filesystem calls
\* os.path.exists(path) for the root path itself or root/rel/name
Exists(t, p) == t[p] # Absent

\* os.path.exists(os.path.join(root, rel)) as sync builds it: for the root
\* rel is "." and root/. exists only when root is a directory
ExistsJoined(t, p) == IF p = <<>> THEN t[p] = Dir ELSE t[p] # Absent

\* os.scandir(top) inside os.walk: an error (top absent or not a directory)
\* is swallowed by os.walk (onerror is None) and the directory yields nothing
CanScan(t, p) == t[p] = Dir
SubDirs(t, p) == {n \in Names : Join(p, n) \in Paths /\ t[Join(p, n)] = Dir}
NonDirs(t, p) == {n \in Names : Join(p, n) \in Paths /\ IsFile(t[Join(p, n)])}

\* os.makedirs(path): "" when it succeeds, else the exception it raises
MakedirsErr(t, p) ==
    IF \E q \in Paths : IsPrefix(q, p) /\ q # p /\ IsFile(t[q]) THEN "NotADirectoryError"
    ELSE IF IsFile(t[p]) /\ p = <<>> THEN "NotADirectoryError"
    ELSE IF t[p] # Absent THEN "FileExistsError"
    ELSE ""
\* os.makedirs(path) creates the leaf and every missing intermediate directory
Makedirs(t, p) == [q \in Paths |-> IF IsPrefix(q, p) THEN Dir ELSE t[q]]

\* hashlib.md5(content).hexdigest()
MD5(c) ==
    CASE c = "hello" -> "5d41402abc4b2a76b9719d911017c592"
      [] c = "world" -> "7d793037a0760186574b0282f2f435e7"

\* open(filepath, 'rb'): "" when it succeeds, else the exception it raises
OpenErr(t, p, noread) ==
    IF t[p] = Absent THEN "FileNotFoundError"
    ELSE IF t[p] = Dir THEN "IsADirectoryError"
    ELSE IF p \in noread THEN "PermissionError"
    ELSE ""

None == "None"
\* calc_md5: only FileNotFoundError is caught (-> None); any other error of
\* open propagates to the caller
calc_md5(t, p, noread) ==
    LET e == OpenErr(t, p, noread) IN
    IF e = "FileNotFoundError" THEN [raised |-> "", value |-> None]
    ELSE IF e # "" THEN [raised |-> e, value |-> None]
    ELSE [raised |-> "", value |-> MD5(Data(t[p]))]

\* shutil.copy2(source_file, dest_file): "" or the exception raised.  from is
\* read in the tree s, to is written in the tree t.  (copy2 onto a directory
\* would copy into it; sync cannot reach line 69 with dest_file a directory,
\* line 63 raises on it first, so that case is given as the error it is.)
Copy2Err(s, from, t, to, noread) ==
    IF OpenErr(s, from, noread) # "" THEN OpenErr(s, from, noread)
    ELSE IF to = <<>> THEN "IsADirectoryError"
    ELSE IF IsFile(t[Parent(to)]) THEN "NotADirectoryError"
    ELSE IF t[Parent(to)] = Absent THEN "FileNotFoundError"
    ELSE IF t[to] = Dir THEN "IsADirectoryError"
    ELSE ""
Copy2(s, from, t, to) == [t EXCEPT ![to] = File(Data(s[from]))]

\* os.remove(path)
RemoveErr(t, p) ==
    IF t[p] = Absent THEN "FileNotFoundError"
    ELSE IF t[p] = Dir THEN "IsADirectoryError"
    ELSE ""
Remove(t, p) == [t EXCEPT ![p] = Absent]

\* shutil.rmtree(path): removes the directory and everything below it
RmtreeErr(t, p) ==
    IF t[p] = Absent THEN "FileNotFoundError"
    ELSE IF IsFile(t[p]) THEN "NotADirectoryError"
    ELSE ""
Rmtree(t, p) == [q \in Paths |-> IF IsPrefix(p, q) THEN Absent ELSE t[q]]

\* ------------------------------------------------------------ program state
VARIABLES
    fs,          \* [src |-> tree, dst |-> tree]: the two directory trees
    unreadable,  \* source files whose open() fails with PermissionError
    order,       \* [src, dst]: the order in which each side enumerates names
    removed,     \* history: entries another process removed during a pass
    entry,       \* "main": started through main; "sync": sync called directly
    pc,          \* control point
    pass,        \* number of the pass running (0 before the first)
    stack,       \* pending frames of the os.walk generator
    root,        \* relative path of the directory os.walk yielded last
    dirs,        \* its subdirectory names still to be processed
    files,       \* its file names still to be processed
    exc,         \* exception that ended the running pass ("" if none)
    log,         \* lines written by log(), oldest first
    ops,         \* history: filesystem mutations sync has applied
    start        \* history: fs when the running pass was called

vars == <<fs, unreadable, order, removed, entry, pc, pass, stack, root, dirs, files, exc, log, ops, start>>

Frame(op, top, ds, fl) == [op |-> op, top |-> top, dirs |-> ds, files |-> fl]
Visits(top, ds) == [i \in 1..Len(ds) |-> Frame("visit", Join(top, ds[i]), <<>>, <<>>)]

\* log(msg, logfile): one line appended (the timestamp is left out)
Line(n, kind, path, detail) == [pass |-> n, kind |-> kind, path |-> path, detail |-> detail]
Op(n, op, side, path) == [pass |-> n, op |-> op, side |-> side, path |-> path]

ActionKinds ==
    {"Created directory", "Copied new file", "Updated file", "Deleted file",
     "Deleted directory"}

Init ==
    /\ fs \in [src : Trees, dst : Trees]
    /\ unreadable \in {{}} \cup {{p} : p \in FilesOf(fs.src) \ {<<>>}}
    \* the names are interchangeable: every source order is a renaming of this one
    /\ order \in [src : {<<"a", "b">>}, dst : Orders]
    /\ removed = <<>>
    /\ entry \in {"main", "sync"}
    /\ pc = IF entry = "main" THEN "main" ELSE "loop"
    /\ pass = 0
    /\ stack = <<>>
    /\ root = <<>>
    /\ dirs = <<>>
    /\ files = <<>>
    /\ exc = ""
    /\ log = <<>>
    /\ ops = <<>>
    /\ start = fs

\* an exception leaves sync: the pass ends where it is
Raise(e) ==
    /\ pc' = "raised"
    /\ exc' = e
    /\ stack' = <<>>
    /\ dirs' = <<>>
    /\ files' = <<>>
    /\ UNCHANGED <<fs, unreadable, order, removed, entry, pass, root, log, ops, start>>

\* ------------------------------------------------------------------- main
\* main, lines 110-118: create the destination root if missing, log the banner
MainSetup ==
    /\ pc = "main"
    /\ fs' = IF ~Exists(fs.dst, <<>>)
               THEN [fs EXCEPT !.dst = Makedirs(fs.dst, <<>>)]
               ELSE fs
    /\ log' = Append(log, Line(0, "Starting folder sync...", <<>>, ""))
    /\ pc' = "loop"
    /\ UNCHANGED <<unreadable, order, removed, entry, pass, stack, root, dirs, files, exc, ops, start>>

CallSyncPruneFirst ==
    /\ pc = "loop"
    /\ pass < (IF entry = "main" THEN MaxPasses ELSE 1)
    /\ pass' = pass + 1
    /\ pc' = "p2_walk"
    /\ stack' = <<Frame("visit", <<>>, <<>>, <<>>)>>
    /\ exc' = ""
    /\ start' = fs
    /\ UNCHANGED <<fs, unreadable, order, removed, entry, root, dirs, files, log, ops>>
\* lines 120-122 (or the direct caller): call sync(source, dest, logfile)
CallSync ==
    /\ pc = "loop"
    /\ pass < (IF entry = "main" THEN MaxPasses ELSE 1)
    /\ pass' = pass + 1
    /\ pc' = "p1_walk"
    /\ stack' = <<Frame("visit", <<>>, <<>>, <<>>)>>
    /\ exc' = ""
    /\ start' = fs
    /\ UNCHANGED <<fs, unreadable, order, removed, entry, root, dirs, files, log, ops>>

\* ------------------------------------------------ sync, phase 1 (lines 37-73)
NoDigest == [raised |-> "", value |-> None]

NeedsCopyAlways(source_md5, dest_md5) == TRUE
\* line 68: the checksums do not match
NeedsCopy(source_md5, dest_md5) == source_md5 # dest_md5

CopyKindInverted(dest_md5) == IF dest_md5 # None THEN "Copied new file" ELSE "Updated file"
\* lines 70-73: which line is logged after the copy
CopyKind(dest_md5) == IF dest_md5 = None THEN "Copied new file" ELSE "Updated file"

CopyFileSwapped(f, p) ==
    IF IsFile(f.dst[p]) THEN [f EXCEPT !.src = Copy2(f.dst, p, f.src, p)] ELSE f
\* line 69: shutil.copy2(source_file, dest_file)
CopyFile(f, p) == [f EXCEPT !.dst = Copy2(f.src, p, f.dst, p)]

MakeDestDirSilent(p) ==
    /\ fs' = [fs EXCEPT !.dst = Makedirs(fs.dst, p)]
    /\ log' = log
    /\ ops' = Append(ops, Op(pass, "makedirs", "dst", p))
\* lines 45-46 and 52-53: os.makedirs(path), then its log line
MakeDestDir(p) ==
    /\ fs' = [fs EXCEPT !.dst = Makedirs(fs.dst, p)]
    /\ log' = Append(log, Line(pass, "Created directory", p, ""))
    /\ ops' = Append(ops, Op(pass, "makedirs", "dst", p))

\* line 38: os.walk(source) is resumed and lists the next directory, top-down;
\* a directory it cannot list is dropped without a word
P1Walk ==
    /\ pc = "p1_walk"
    /\ stack # <<>>
    /\ LET top == Head(stack).top IN
       IF CanScan(fs.src, top)
       THEN LET ds == Listing(SubDirs(fs.src, top), order.src)
                fl == Listing(NonDirs(fs.src, top), order.src)
            IN /\ root' = top
               /\ dirs' = ds
               /\ files' = fl
               /\ stack' = Visits(top, ds) \o Tail(stack)
               /\ pc' = "p1_root"
       ELSE /\ stack' = Tail(stack)
            /\ UNCHANGED <<root, dirs, files, pc>>
    /\ UNCHANGED <<fs, unreadable, order, removed, entry, pass, exc, log, ops, start>>

\* lines 40-46: create the destination directory of the yielded directory
P1Root ==
    /\ pc = "p1_root"
    /\ IF ~ExistsJoined(fs.dst, root)
       THEN IF MakedirsErr(fs.dst, root) # ""
            THEN Raise(MakedirsErr(fs.dst, root))
            ELSE /\ MakeDestDir(root)
                 /\ pc' = "p1_body"
                 /\ UNCHANGED <<unreadable, order, removed, entry, pass, stack, root, dirs, files, exc, start>>
       ELSE /\ pc' = "p1_body"
            /\ UNCHANGED <<fs, unreadable, order, removed, entry, pass, stack, root, dirs, files, exc, log, ops, start>>

\* lines 48-53: one turn of "for d in dirs"
P1Dir ==
    /\ pc = "p1_body"
    /\ dirs # <<>>
    /\ LET dest_dir == Join(root, Head(dirs)) IN
       IF ~Exists(fs.dst, dest_dir)
       THEN IF MakedirsErr(fs.dst, dest_dir) # ""
            THEN Raise(MakedirsErr(fs.dst, dest_dir))
            ELSE /\ MakeDestDir(dest_dir)
                 /\ dirs' = Tail(dirs)
                 /\ UNCHANGED <<unreadable, order, removed, entry, pc, pass, stack, root, files, exc, start>>
       ELSE /\ dirs' = Tail(dirs)
            /\ UNCHANGED <<fs, unreadable, order, removed, entry, pc, pass, stack, root, files, exc, log, ops, start>>

\* lines 56-73: one turn of "for file in files"
P1File ==
    /\ pc = "p1_body"
    /\ dirs = <<>>
    /\ files # <<>>
    /\ LET file == Join(root, Head(files))
           source_md5 == calc_md5(fs.src, file, unreadable)
           dest_md5 == IF Exists(fs.dst, file) THEN calc_md5(fs.dst, file, {}) ELSE NoDigest
           copy_err == Copy2Err(fs.src, file, fs.dst, file, unreadable)
       IN
       IF source_md5.raised # "" THEN Raise(source_md5.raised)
       ELSE IF dest_md5.raised # "" THEN Raise(dest_md5.raised)
       ELSE IF NeedsCopy(source_md5.value, dest_md5.value)
            THEN IF copy_err # ""
                 THEN Raise(copy_err)
                 ELSE /\ fs' = CopyFile(fs, file)
                      /\ log' = Append(log, Line(pass, CopyKind(dest_md5.value), file, ""))
                      /\ ops' = Append(ops, Op(pass, "copy2", "dst", file))
                      /\ files' = Tail(files)
                      /\ UNCHANGED <<unreadable, order, removed, entry, pc, pass, stack, root, dirs, exc, start>>
            ELSE /\ files' = Tail(files)
                 /\ UNCHANGED <<fs, unreadable, order, removed, entry, pc, pass, stack, root, dirs, exc, log, ops, start>>

\* the body of the loop at line 38 ends: back to os.walk
P1EndDir ==
    /\ pc = "p1_body"
    /\ dirs = <<>>
    /\ files = <<>>
    /\ pc' = "p1_walk"
    /\ UNCHANGED <<fs, unreadable, order, removed, entry, pass, stack, root, dirs, files, exc, log, ops, start>>

\* os.walk(source) is exhausted; line 76 starts os.walk(dest, topdown=False)
P1Done ==
    /\ pc = "p1_walk"
    /\ stack = <<>>
    /\ pc' = "p2_walk"
    /\ stack' = <<Frame("visit", <<>>, <<>>, <<>>)>>
    /\ UNCHANGED <<fs, unreadable, order, removed, entry, pass, root, dirs, files, exc, log, ops, start>>

\* ------------------------------------------------ sync, phase 2 (lines 75-95)
NotInSourceGuarded(f, p) == f.src[<<>>] = Dir /\ ~Exists(f.src, p)
NotInSourceFile(f, p) == ~IsFile(f.src[p])
\* lines 85 and 93: nothing exists at the same relative path under source
NotInSource(f, p) == ~Exists(f.src, p)

\* line 86: os.remove(dest_file)
RemoveFile(f, p) == [f EXCEPT !.dst = Remove(f.dst, p)]

\* line 94: shutil.rmtree(dest_dir)
RemoveTree(f, p) == [f EXCEPT !.dst = Rmtree(f.dst, p)]

P2FramesTopDown(top, ds, fl) == <<Frame("yield", top, ds, fl)>> \o Visits(top, ds)
\* os.walk(dest, topdown=False): the frames a listed directory leaves on the
\* stack, its subdirectories first and its own yield after them
P2Frames(top, ds, fl) == Visits(top, ds) \o <<Frame("yield", top, ds, fl)>>

\* line 76, bottom-up os.walk: a directory is listed when the walk reaches it,
\* its subdirectories are walked next, and only then is it yielded
P2Scan ==
    /\ pc = "p2_walk"
    /\ stack # <<>>
    /\ Head(stack).op = "visit"
    /\ LET top == Head(stack).top IN
       IF CanScan(fs.dst, top)
       THEN LET ds == Listing(SubDirs(fs.dst, top), order.dst)
                fl == Listing(NonDirs(fs.dst, top), order.dst)
            IN stack' = P2Frames(top, ds, fl) \o Tail(stack)
       ELSE stack' = Tail(stack)
    /\ UNCHANGED <<fs, unreadable, order, removed, entry, pc, pass, root, dirs, files, exc, log, ops, start>>

\* line 76: os.walk yields a directory whose subdirectories are all walked
P2Yield ==
    /\ pc = "p2_walk"
    /\ stack # <<>>
    /\ Head(stack).op = "yield"
    /\ root' = Head(stack).top
    /\ dirs' = Head(stack).dirs
    /\ files' = Head(stack).files
    /\ stack' = Tail(stack)
    /\ pc' = "p2_body"
    /\ UNCHANGED <<fs, unreadable, order, removed, entry, pass, exc, log, ops, start>>

\* lines 82-87: one turn of "for file in files"
P2File ==
    /\ pc = "p2_body"
    /\ files # <<>>
    /\ LET dest_file == Join(root, Head(files)) IN
       IF NotInSource(fs, dest_file)
       THEN IF RemoveErr(fs.dst, dest_file) # ""
            THEN Raise(RemoveErr(fs.dst, dest_file))
            ELSE /\ fs' = RemoveFile(fs, dest_file)
                 /\ log' = Append(log, Line(pass, "Deleted file", dest_file, ""))
                 /\ ops' = Append(ops, Op(pass, "remove", "dst", dest_file))
                 /\ files' = Tail(files)
                 /\ UNCHANGED <<unreadable, order, removed, entry, pc, pass, stack, root, dirs, exc, start>>
       ELSE /\ files' = Tail(files)
            /\ UNCHANGED <<fs, unreadable, order, removed, entry, pc, pass, stack, root, dirs, exc, log, ops, start>>

P2DirAnyTime ==
    /\ pc = "p2_body"
    /\ dirs # <<>>
    /\ LET dest_dir == Join(root, Head(dirs)) IN
       IF NotInSource(fs, dest_dir)
       THEN IF RmtreeErr(fs.dst, dest_dir) # ""
            THEN Raise(RmtreeErr(fs.dst, dest_dir))
            ELSE /\ fs' = RemoveTree(fs, dest_dir)
                 /\ log' = Append(log, Line(pass, "Deleted directory", dest_dir, ""))
                 /\ ops' = Append(ops, Op(pass, "rmtree", "dst", dest_dir))
                 /\ dirs' = Tail(dirs)
                 /\ UNCHANGED <<unreadable, order, removed, entry, pc, pass, stack, root, files, exc, start>>
       ELSE /\ dirs' = Tail(dirs)
            /\ UNCHANGED <<fs, unreadable, order, removed, entry, pc, pass, stack, root, files, exc, log, ops, start>>

\* lines 90-95: one turn of "for d in dirs"
P2Dir ==
    /\ pc = "p2_body"
    /\ files = <<>>
    /\ dirs # <<>>
    /\ LET dest_dir == Join(root, Head(dirs)) IN
       IF NotInSource(fs, dest_dir)
       THEN IF RmtreeErr(fs.dst, dest_dir) # ""
            THEN Raise(RmtreeErr(fs.dst, dest_dir))
            ELSE /\ fs' = RemoveTree(fs, dest_dir)
                 /\ log' = Append(log, Line(pass, "Deleted directory", dest_dir, ""))
                 /\ ops' = Append(ops, Op(pass, "rmtree", "dst", dest_dir))
                 /\ dirs' = Tail(dirs)
                 /\ UNCHANGED <<unreadable, order, removed, entry, pc, pass, stack, root, files, exc, start>>
       ELSE /\ dirs' = Tail(dirs)
            /\ UNCHANGED <<fs, unreadable, order, removed, entry, pc, pass, stack, root, files, exc, log, ops, start>>

\* the body of the loop at line 76 ends: back to os.walk
P2EndDir ==
    /\ pc = "p2_body"
    /\ dirs = <<>>
    /\ files = <<>>
    /\ pc' = "p2_walk"
    /\ UNCHANGED <<fs, unreadable, order, removed, entry, pass, stack, root, dirs, files, exc, log, ops, start>>

\* os.walk(dest) is exhausted: sync returns
P2Done ==
    /\ pc = "p2_walk"
    /\ stack = <<>>
    /\ pc' = "returned"
    /\ UNCHANGED <<fs, unreadable, order, removed, entry, pass, stack, root, dirs, files, exc, log, ops, start>>

\* -------------------------------------------- main, the loop (lines 120-126)
MainExceptNotFoundOnly ==
    /\ pc = "raised"
    /\ entry = "main"
    /\ IF exc = "FileNotFoundError"
       THEN /\ log' = Append(log, Line(pass, "Error", <<>>, exc))
            /\ pc' = "caught"
       ELSE /\ log' = log
            /\ pc' = "crashed"
    /\ UNCHANGED <<fs, unreadable, order, removed, entry, pass, stack, root, dirs, files, exc, ops, start>>
\* lines 123-124: except Exception as e: log(f"Error: {e}")
MainExcept ==
    /\ pc = "raised"
    /\ entry = "main"
    /\ log' = Append(log, Line(pass, "Error", <<>>, exc))
    /\ pc' = "caught"
    /\ UNCHANGED <<fs, unreadable, order, removed, entry, pass, stack, root, dirs, files, exc, ops, start>>

\* line 125: log("Synchronization completed")
MainCompleted ==
    /\ pc \in {"returned", "caught"}
    /\ entry = "main"
    /\ log' = Append(log, Line(pass, "Synchronization completed", <<>>, ""))
    /\ pc' = "sleep"
    /\ UNCHANGED <<fs, unreadable, order, removed, entry, pass, stack, root, dirs, files, exc, ops, start>>

\* line 126: time.sleep(interval), then the loop turns
Sleep ==
    /\ pc = "sleep"
    /\ pc' = "loop"
    /\ UNCHANGED <<fs, unreadable, order, removed, entry, pass, stack, root, dirs, files, exc, log, ops, start>>

Next ==
    \/ MainSetup
    \/ CallSync
    \/ P1Walk
    \/ P1Root
    \/ P1Dir
    \/ P1File
    \/ P1EndDir
    \/ P1Done
    \/ P2Scan
    \/ P2Yield
    \/ P2File
    \/ P2Dir
    \/ P2EndDir
    \/ P2Done
    \/ MainExcept
    \/ MainCompleted
    \/ Sleep

Spec == Init /\ [][Next]_vars

\* ------------------------------------------- a concurrent external process
\* Another process removes an entry (a file, or a directory with all below
\* it) that os.walk has listed for the directory being processed and that
\* sync has not reached yet: a source entry in phase 1 (lines 48-73), a
\* destination entry in phase 2 (lines 82-95).
ExternalRemove ==
    /\ pc \in {"p1_body", "p2_body"}
    /\ Len(removed) < MaxRaces
    /\ \E n \in Names :
          LET p == Join(root, n)
              side == IF pc = "p1_body" THEN "src" ELSE "dst"
          IN /\ \E i \in DOMAIN dirs \cup DOMAIN files :
                    \/ (i \in DOMAIN dirs /\ dirs[i] = n)
                    \/ (i \in DOMAIN files /\ files[i] = n)
             /\ fs[side][p] # Absent
             /\ fs' = [fs EXCEPT ![side] = Rmtree(fs[side], p)]
             /\ removed' = Append(removed, [side |-> side, path |-> p])
    /\ UNCHANGED <<unreadable, order, entry, pc, pass, stack, root, dirs, files, exc, log, ops, start>>

\* main running on trees whose files are all readable
InitRace == Init /\ entry = "main" /\ unreadable = {}

NextRace == Next \/ ExternalRemove

SpecRace == InitRace /\ [][NextRace]_vars

\* ------------------------------------------------------------------ claims
NonRoot == Paths \ {<<>>}

\* the files under the two roots and their contents are the same
SameFiles(s, d) ==
    \A p \in NonRoot : IF IsFile(s[p]) THEN d[p] = s[p] ELSE ~IsFile(d[p])

\* the lines of pass n that report a change of the destination
ActionLines(n) == {i \in DOMAIN log : log[i].pass = n /\ log[i].kind \in ActionKinds}

\* C1: after a call of sync has returned, the files under the destination and
\* their contents are exactly the files under the source and their contents,
\* whatever files and directories the two trees started with.
C1_Convergence == pc = "returned" => SameFiles(fs.src, fs.dst)

\* C2: with the source unchanged after a first pass, every later pass changes
\* nothing in the destination and logs no created, copied, updated or deleted
\* line.
C2_Idempotence ==
    /\ \A i \in DOMAIN ops : ops[i].pass = 1
    /\ \A i \in DOMAIN log : log[i].pass >= 2 => log[i].kind \notin ActionKinds
    /\ pass >= 2 => fs = start

\* a second pass has run to its end after a first pass that changed something
C2_Witness == pass = 2 /\ pc = "returned" /\ Len(ops) >= 2

\* C3: in every state of every pass, the failing ones included, the source
\* tree is the source tree the pass was called with.
C3_NoSourceMutation == fs.src = start.src

\* a pass that updated a file, deleted another and then ended
C3_Witness ==
    /\ pc = "returned"
    /\ \E i, j \in DOMAIN ops : ops[i].op = "copy2" /\ ops[j].op = "remove"
    /\ \E i \in DOMAIN log : log[i].kind = "Updated file"

\* sync is about to run one turn of the file loop of phase 1 (lines 56-73)
AtP1File == pc = "p1_body" /\ dirs = <<>> /\ files # <<>>

\* C4: in phase 1, with every source file readable, the source file now
\* processed is copied to its destination path exactly when no file exists at
\* that path or the file there has another fingerprint; otherwise nothing is
\* written and nothing is logged.
C4_MinimalActionSet ==
    [][(AtP1File /\ unreadable = {}) =>
        LET p == Join(root, Head(files))
            differs == \/ ~IsFile(fs.dst[p])
                       \/ MD5(Data(fs.dst[p])) # MD5(Data(fs.src[p]))
        IN IF differs
           THEN /\ fs'.dst = [fs.dst EXCEPT ![p] = fs.src[p]]
                /\ Len(log') = Len(log) + 1
           ELSE fs' = fs /\ log' = log /\ ops' = ops]_vars

\* the entries the destination had when the pass was called and that have no
\* entry at the same relative path under the source
Extra == {p \in NonRoot : start.dst[p] # Absent /\ fs.src[p] = Absent}

\* C5: after a pass has returned, every file and directory of the destination
\* that had no entry at the same path under the source is gone, and the
\* destination has exactly the directories of the source.
C5_DeletionCorrectness ==
    pc = "returned" =>
        /\ \A p \in Extra : fs.dst[p] = Absent
        /\ \A p \in NonRoot : fs.dst[p] = Dir <=> fs.src[p] = Dir

IsDeletion(i, n) ==
    log[i].pass = n /\ log[i].kind \in {"Deleted file", "Deleted directory"}

\* C6 as claimed: a "Deleted directory" line stands for its whole subtree; no
\* file or subdirectory inside it has a deletion line of its own in that pass.
C6_OneEventPerSubtree ==
    \A i, j \in DOMAIN log :
        (/\ log[i].kind = "Deleted directory"
         /\ IsDeletion(j, log[i].pass)
         /\ IsPrefix(log[i].path, log[j].path))
        => i = j

\* the deletion line the running pass logs for the entry that was at q
DeletionKind(q) == IF start.dst[q] = Dir THEN "Deleted directory" ELSE "Deleted file"

\* C6 as amended: a directory of the destination that is absent from the
\* source gets exactly one "Deleted directory" line, and every file and
\* subdirectory that was inside it got a deletion line of its own before it.
C6_EventPerDescendant ==
    /\ \A i \in DOMAIN log :
          (log[i].pass = pass /\ log[i].kind = "Deleted directory") =>
              LET p == log[i].path IN
              /\ p \in Extra
              /\ start.dst[p] = Dir
              /\ \A j \in DOMAIN log : (IsDeletion(j, pass) /\ log[j].path = p) => j = i
              /\ \A q \in Paths :
                    (IsPrefix(p, q) /\ q # p /\ start.dst[q] # Absent) =>
                        \E j \in 1..(i - 1) :
                            /\ log[j].pass = pass
                            /\ log[j].path = q
                            /\ log[j].kind = DeletionKind(q)
    /\ pc = "returned" =>
          \A p \in Extra : start.dst[p] = Dir =>
              \E i \in DOMAIN log :
                  log[i].pass = pass /\ log[i].kind = "Deleted directory" /\ log[i].path = p

\* a pass pruned a directory that held a file: two lines, the file's first
C6_Witness ==
    /\ pc = "returned"
    /\ \E i, j \in DOMAIN log :
          /\ i < j
          /\ log[i].kind = "Deleted file"
          /\ log[j].kind = "Deleted directory"
          /\ log[i].pass = log[j].pass
          /\ Parent(log[i].path) = log[j].path

\* the lines of the running pass with this kind and path
LinesOf(kind, p) ==
    {i \in DOMAIN log : log[i].pass = pass /\ log[i].kind = kind /\ log[i].path = p}

\* sync was called with no destination root, a source directory and every
\* source file readable
Fresh == start.dst[<<>>] = Absent /\ start.src[<<>>] = Dir /\ unreadable = {}

\* C7: called with no destination root, the pass does not fail; when it has
\* returned the destination is a copy of the source, with exactly one
\* "Created directory" line for the root and for each subdirectory and exactly
\* one "Copied new file" line for each file and no other line; and a file is
\* never copied before the line that creates its directory.
C7_FreshDestination ==
    Fresh =>
        /\ pc # "raised"
        /\ pc = "returned" =>
              /\ fs.dst = fs.src
              /\ \A p \in Paths :
                    /\ Cardinality(LinesOf("Created directory", p))
                          = IF fs.src[p] = Dir THEN 1 ELSE 0
                    /\ Cardinality(LinesOf("Copied new file", p))
                          = IF IsFile(fs.src[p]) THEN 1 ELSE 0
              /\ Cardinality(ActionLines(pass)) = Cardinality(Entries(fs.src)) + 1
        /\ \A i \in ActionLines(pass) :
              log[i].kind = "Copied new file" =>
                  \E j \in 1..(i - 1) :
                      /\ log[j].pass = pass
                      /\ log[j].kind = "Created directory"
                      /\ log[j].path = Parent(log[i].path)

\* a fresh destination was filled with a subdirectory and a file inside it
C7_Witness ==
    /\ Fresh
    /\ pc = "returned"
    /\ \E p \in Paths : Len(p) = 2 /\ IsFile(fs.dst[p])

\* no path holds a file on one side and a directory on the other, and both
\* roots are directories
NoConflict(s, d) ==
    /\ s[<<>>] = Dir
    /\ d[<<>>] = Dir
    /\ \A p \in NonRoot : ~(s[p] = Dir /\ IsFile(d[p])) /\ ~(IsFile(s[p]) /\ d[p] = Dir)

\* C8: with exactly one source file unreadable (and no file facing a directory
\* at the same path), once the pass has ended every other source file has its
\* copy in the destination.
C8_PartialFailureIsolation ==
    (/\ Cardinality(unreadable) = 1
     /\ NoConflict(start.src, start.dst)
     /\ pc \in {"returned", "raised"})
    => \A p \in FilesOf(fs.src) \ unreadable : fs.dst[p] = fs.src[p]

\* C9: a call of sync never leaves by an exception.
C9_NeverRaises == pc # "raised"

\* C10: under main, a pass that raised is logged as an error; a pass that
\* ended is followed by the "completed" line, the sleep and the next call of
\* sync, in that order; the pass number changes only by a call from the loop,
\* after the previous pass has ended; and the loop never stops while passes
\* remain.
C10_LoopSurvives ==
    /\ [][entry = "main" =>
            /\ pc = "raised" =>
                  pc' = "caught" /\ log' = Append(log, Line(pass, "Error", <<>>, exc))
            /\ pc \in {"returned", "caught"} =>
                  /\ pc' = "sleep"
                  /\ log' = Append(log, Line(pass, "Synchronization completed", <<>>, ""))
            /\ pc = "sleep" => pc' = "loop"
            /\ (pc = "loop" /\ pass < MaxPasses) => pc' = "p1_walk"
            /\ pass' # pass => pc = "loop" /\ pass' = pass + 1]_vars
    /\ []((entry = "main" /\ pass < MaxPasses) => ENABLED Next)

\* a second pass was started after a first pass that raised and was logged
C10_Witness ==
    /\ entry = "main"
    /\ pass = 2
    /\ pc = "p1_walk"
    /\ \E i \in DOMAIN log : log[i].pass = 1 /\ log[i].kind = "Error"

\* the pass has ended, by a return or by an exception
Ended == pc \in {"returned", "raised"}

\* C11: a pass called with a source path that exists but is no directory ends
\* as a failed pass (an exception for the scheduler to log) and has changed
\* nothing in the destination.
C11_StartupFailure ==
    (IsFile(start.src[<<>>]) /\ Ended) => (pc = "raised" /\ fs.dst = start.dst)

Deletes == {"remove", "rmtree"}
DeletionLines == {"Deleted file", "Deleted directory"}

\* C12: within a pass no creation, copy or update follows a deletion, phase 1
\* deletes nothing, and from the start of phase 2 on every entry of the source
\* has an entry at the same path in the destination.
C12_PhaseOrdering ==
    /\ \A i, j \in DOMAIN ops :
          (i < j /\ ops[i].pass = ops[j].pass /\ ops[i].op \in Deletes)
              => ops[j].op \in Deletes
    /\ \A i, j \in DOMAIN log :
          (i < j /\ log[i].pass = log[j].pass /\ log[i].kind \in DeletionLines)
              => log[j].kind \notin (ActionKinds \ DeletionLines)
    /\ pc \in {"p1_walk", "p1_root", "p1_body"} =>
          \A i \in DOMAIN ops : ops[i].pass = pass => ops[i].op \notin Deletes
    /\ pc \in {"p2_walk", "p2_body"} =>
          \A p \in NonRoot : fs.src[p] # Absent => fs.dst[p] # Absent

\* phase 2 is deleting after phase 1 has copied a file in the same pass
C12_Witness ==
    /\ pc = "p2_body"
    /\ \E i, j \in DOMAIN ops :
          /\ i < j
          /\ ops[i].pass = pass
          /\ ops[j].pass = pass
          /\ ops[i].op = "copy2"
          /\ ops[j].op = "remove"

\* C13: in a pass where one source file cannot be processed (and no file faces
\* a directory at the same path), phase 2 has still run when the pass ends:
\* no destination entry absent from the source is left.
C13_Phase2AfterFailure ==
    (/\ unreadable # {}
     /\ NoConflict(start.src, start.dst)
     /\ Ended)
    => \A p \in Extra : fs.dst[p] = Absent

InBody == pc \in {"p1_body", "p2_body"}

\* C15 as claimed: in either phase, while subdirectory entries of the visited
\* directory are still to be processed, none of its files is processed.
C15_DirsBeforeFiles ==
    [][(InBody /\ pc' = pc /\ dirs # <<>>) => files' = files]_vars

\* C15 as amended: in phase 1 the subdirectory entries of the visited
\* directory are processed before its files; in phase 2 its files are
\* processed before its subdirectory entries.
C15_LoopOrder ==
    [][/\ (pc = "p1_body" /\ pc' = pc /\ dirs # <<>>) => files' = files
       /\ (pc = "p2_body" /\ pc' = pc /\ files # <<>>) => dirs' = dirs]_vars

\* phase 2 has gone through the files of a directory of the destination and
\* still has a subdirectory of it to process
C15_Witness ==
    /\ pc = "p2_body"
    /\ files = <<>>
    /\ dirs # <<>>
    /\ NonDirs(start.dst, root) # {}

\* C17: with every file readable and the source unchanged, once main has run
\* all its passes after a pass that was aborted by an error, the files of the
\* destination are the files of the source.
C17_EventualConvergence ==
    (/\ entry = "main"
     /\ unreadable = {}
     /\ pass = MaxPasses
     /\ pc = "sleep"
     /\ \E i \in DOMAIN log : log[i].kind = "Error" /\ log[i].pass < pass)
    => SameFiles(fs.src, fs.dst)

\* the change of the destination tree from d to e that a log line of this
\* kind and path reports
Applied(kind, p, d, e, s) ==
    CASE kind = "Created directory" -> d[p] = Absent /\ e = Makedirs(d, p)
      [] kind = "Copied new file" -> d[p] = Absent /\ IsFile(s[p]) /\ e = [d EXCEPT ![p] = s[p]]
      [] kind = "Updated file" -> IsFile(d[p]) /\ IsFile(s[p]) /\ e = [d EXCEPT ![p] = s[p]]
      [] kind = "Deleted file" -> IsFile(d[p]) /\ e = Remove(d, p)
      [] kind = "Deleted directory" -> d[p] = Dir /\ e = Rmtree(d, p)
      [] OTHER -> FALSE

\* C18: every step of sync that changes the destination appends exactly one
\* line, the line that reports that change, and every created, copied,
\* updated or deleted line is appended by a step that made that change; so
\* the lines and the changes correspond one to one, in the same order.
C18_OneEventPerAction ==
    [][pc # "main" =>
        LET n == Len(log')
            logged == log' # log /\ n > 0 /\ log'[n].kind \in ActionKinds
        IN (fs'.dst # fs.dst \/ logged) =>
              /\ fs'.dst # fs.dst
              /\ n = Len(log) + 1
              /\ log' = Append(log, log'[n])
              /\ log'[n].pass = pass
              /\ Applied(log'[n].kind, log'[n].path, fs.dst, fs'.dst, fs.src)]_vars

\* a pass that created a directory and pruned another has returned
C18_Witness ==
    /\ pc = "returned"
    /\ \E i, j \in ActionLines(pass) :
          log[i].kind = "Created directory" /\ log[j].kind = "Deleted directory"

\* C19: called with a source root that is absent or no directory, the pass
\* raises nothing, phase 1 changes nothing, and when the pass has returned
\* the destination root is as it was and nothing is left under it.
C19_NoSourceRoot ==
    (start.src[<<>>] # Dir /\ pass >= 1) =>
        /\ pc # "raised"
        /\ pc \in {"p1_walk", "p1_root", "p1_body"} => fs = start
        /\ \A i \in DOMAIN ops : ops[i].pass = pass => ops[i].op \in Deletes
        /\ fs.dst[<<>>] = start.dst[<<>>]
        /\ pc = "returned" => Entries(fs.dst) = {}

\* a pass without a source directory has emptied a destination that held a
\* file and a directory
C19_Witness ==
    /\ start.src[<<>>] # Dir
    /\ pc = "returned"
    /\ fs.dst[<<>>] = Dir
    /\ \E p, q \in Entries(start.dst) : IsFile(start.dst[p]) /\ start.dst[q] = Dir

\* C20: a step removes an entry of the destination only if nothing of any
\* kind exists at the same relative path under the source, and never removes
\* the destination root.
C20_DeleteOnlyIfAbsent ==
    [][\A p \in Paths :
          (fs.dst[p] # Absent /\ fs'.dst[p] = Absent) =>
              (p # <<>> /\ fs.src[p] = Absent)]_vars

\* a pass has deleted a file and returned, leaving in place a destination
\* file whose path names a directory of the source
C20_Witness ==
    /\ pc = "returned"
    /\ \E i \in DOMAIN ops : ops[i].pass = pass /\ ops[i].op = "remove"
    /\ \E p \in NonRoot : IsFile(fs.dst[p]) /\ fs.src[p] = Dir

\* C14: when sync comes to a source file whose fingerprint cannot be computed
\* (open fails: the file is unreadable or gone), it leaves the file with an
\* error (the exception main logs) and the destination as it is.
C14_NoFingerprint ==
    [][(/\ AtP1File
        /\ removed' = removed
        /\ OpenErr(fs.src, Join(root, Head(files)), unreadable) # "")
       => (pc' = "raised" /\ fs'.dst = fs.dst)]_vars

\* C16: with every file readable and no file facing a directory, a pass in
\* which another process removed a listed entry does not end by an exception.
C16_RaceTolerated ==
    (/\ removed # <<>>
     /\ unreadable = {}
     /\ NoConflict(start.src, start.dst))
    => pc # "raised"

=============================================================================
